---- MODULE Spec2Model ----
(***************************************************************************)
(* Model of the Confluence-to-PDF exporter: main() of main.py, the parts   *)
(* of ConfluenceClient (confluence_client.py) and PDFExporter              *)
(* (pdf_exporter.py) it drives.                                            *)
(*                                                                         *)
(* Text (titles, paths, file names) is a sequence of one-character strings *)
(* so that joining, sanitizing and os.path.join act on characters.         *)
(* A URL is a sequence of lexical tokens.                                  *)
(***************************************************************************)
EXTENDS Integers, Sequences, FiniteSets, TLC

(* ------------------------------ bounds --------------------------------- *)
\* number of content IDs the content service knows
MaxNodes == 4
\* longest list one children fetch (or the space listing) returns
MaxChildren == 2
\* total number of child entries the service returns during one run
MaxEdges == 3
\* total number of failing service calls / renders during one run
MaxFaults == 2
\* longest URL, in tokens
MaxUrlLen == 2

Nodes == 1..MaxNodes

(* ------------------------------ text ----------------------------------- *)
\* str(id): IDs are decimal strings
IdStr(n) ==
    CASE n = 1 -> <<"1">>
      [] n = 2 -> <<"2">>
      [] n = 3 -> <<"3">>
      [] n = 4 -> <<"4">>
      [] OTHER -> <<"9">>

\* the 'title' the service reports for each content ID
Title(n) ==
    CASE n = 1 -> <<"F">>
      [] n = 2 -> <<"P", "1">>
      [] n = 3 -> <<"F", "2">>
      [] n = 4 -> <<"P", "2">>
      [] OTHER -> <<"N">>

RECURSIVE Flatten(_)
\* ''.join(parts)
Flatten(parts) ==
    IF parts = <<>> THEN <<>> ELSE Head(parts) \o Flatten(Tail(parts))

RECURSIVE JoinSlash(_)
\* '/'.join(parts)
JoinSlash(parts) ==
    IF parts = <<>> THEN <<>>
    ELSE IF Len(parts) = 1 THEN Head(parts)
    ELSE Head(parts) \o <<"/">> \o JoinSlash(Tail(parts))

\* f"{current_path}/{name}" if current_path else name
PathUnder(current_path, name) ==
    IF current_path # <<>> THEN current_path \o <<"/">> \o name ELSE name

\* f"{child_path}/{folder_name}"
PathSlash(child_path, folder_name) == child_path \o <<"/">> \o folder_name

(* ------------------------------ URLs ----------------------------------- *)
UrlTokens == {"/spaces/", "/folder/", "pageId=", "/pages/", "1", "x"}

\* \d+ : the tokens that are runs of digits, and the content ID they spell
IsDigits(tok) == tok = "1"

IdOfDigits(tok) == IF tok = "1" THEN 1 ELSE 0

RECURSIVE UrlsUpTo(_)
UrlsUpTo(n) ==
    IF n = 0 THEN {<<>>}
    ELSE UrlsUpTo(n - 1) \cup
         {Append(u, t) : u \in {v \in UrlsUpTo(n - 1) : Len(v) = n - 1}, t \in UrlTokens}

Urls == UrlsUpTo(MaxUrlLen)

\* marker in url
Contains(url, marker) == \E i \in 1..Len(url) : url[i] = marker

\* re.search(marker + r'(\d+)', url): positions where the marker is followed by digits
Matches(url, marker) ==
    {i \in 1..Len(url) : url[i] = marker /\ i < Len(url) /\ IsDigits(url[i + 1])}

\* match.group(1) of the leftmost match, 0 (None) when there is no match
Group1(url, marker) ==
    IF Matches(url, marker) = {} THEN 0
    ELSE LET i == CHOOSE j \in Matches(url, marker) :
                      \A k \in Matches(url, marker) : j <= k
         IN  IdOfDigits(url[i + 1])

\* ConfluenceClient._parse_confluence_url: page_id 0 stands for the ValueError
ParseConfluenceUrl(url) ==
    IF Contains(url, "/folder/")
    THEN [page_id |-> Group1(url, "/folder/"),
          is_folder |-> Group1(url, "/folder/") # 0]
    ELSE IF Contains(url, "pageId=")
    THEN [page_id |-> Group1(url, "pageId="), is_folder |-> FALSE]
    ELSE IF Contains(url, "/pages/")
    THEN [page_id |-> Group1(url, "/pages/"), is_folder |-> FALSE]
    ELSE [page_id |-> 0, is_folder |-> FALSE]

(* ------------------------------ state ---------------------------------- *)
VARIABLES
    pc,                    \* position in main(): "start", "url", "connect", "entry",
                           \*   "discover", "export", "done"
    exit_status,           \* process exit status once pc = "done", -1 before
    username, api_token,   \* os.getenv results
    confluence_url,        \* the URL read from the operator
    confluence,            \* the ConfluenceClient object, NoClient before construction
    output_dir,            \* exporter.output_dir
    todo_queue,            \* list of (content_id, content_type, relative_path)
    processed_ids,         \* set of content IDs
    all_pages_with_paths,  \* list of (page, relative_path)
    enqueued,              \* history: every queue entry ever appended, with the node whose
                           \*   expansion appended it (0: seeded by the entry point)
    fetched,               \* history: per node, the answers of its two children fetches
    expanded,              \* history: the queue entries dequeued and not skipped, in order
    entry,                 \* history: "pending", then "resolved" or "unresolved"
    edges, faults,         \* counters of the bounds MaxEdges and MaxFaults
    export_index,          \* number of export-loop iterations started
    export_log,            \* history: one record per export-loop iteration
    files, dirs,           \* the output directory tree written so far
    arg_page_info,         \* export_to_pdf called on its own: the page_info argument
    arg_relative_path,     \*   and the relative_path argument
    contributors_data,     \* _parse_and_sort_contributors called on its own: the argument
    sorted_contributors,   \*   and the list it returns
    http_responses,        \* _get_folder_contents called on its own: what the service
                           \*   answers to its first, second, ... request
    all_items, start       \*   and the locals of its loop

vars == <<pc, exit_status, username, api_token, confluence_url, confluence, output_dir,
          todo_queue, processed_ids, all_pages_with_paths, enqueued, fetched, expanded,
          entry, edges, faults, export_index, export_log, files, dirs,
          arg_page_info, arg_relative_path, contributors_data, sorted_contributors,
          http_responses, all_items, start>>

discoveryVars ==
    <<todo_queue, processed_ids, all_pages_with_paths, enqueued, fetched, expanded, edges>>

exportVars == <<export_index, export_log, files, dirs>>

fetchVars == <<http_responses, all_items, start>>

callVars ==
    <<arg_page_info, arg_relative_path, contributors_data, sorted_contributors, fetchVars>>

\* no call of export_to_pdf on its own is under way
NoPageInfo == [id |-> 0, title |-> <<>>]

NoClient == [page_id |-> 0, is_folder |-> FALSE, is_space |-> "none"]

\* an answer of the content service to one list request
Answer(status, items) == [status |-> status, items |-> items]

NotFetched == [page |-> Answer("none", <<>>), folder |-> Answer("none", <<>>)]

\* output_dir = "output"
OutputRoot == <<"o", "u", "t">>

Init ==
    /\ pc = "start"
    /\ exit_status = -1
    /\ username \in {"None", "", "user"}
    /\ api_token \in {"None", "", "token"}
    /\ confluence_url = <<>>
    /\ confluence = NoClient
    /\ output_dir = OutputRoot
    /\ todo_queue = <<>>
    /\ processed_ids = {}
    /\ all_pages_with_paths = <<>>
    /\ enqueued = <<>>
    /\ fetched = [n \in Nodes |-> NotFetched]
    /\ expanded = <<>>
    /\ entry = "pending"
    /\ edges = 0
    /\ faults = 0
    /\ export_index = 0
    /\ export_log = <<>>
    /\ files = {}
    /\ dirs = {}
    /\ arg_page_info = NoPageInfo
    /\ arg_relative_path = <<>>
    /\ contributors_data = <<>>
    /\ sorted_contributors = <<>>
    /\ http_responses = <<>>
    /\ all_items = <<>>
    /\ start = 0

\* sys.exit(status)
Exit(status) ==
    /\ pc' = "done"
    /\ exit_status' = status

\* the handler ends the run with the success status
RaiseIgnored == Exit(0)

\* main.py 247-249: an exception that reaches the handler of main() ends the run with
\* status 1
Raise == Exit(1)

\* main.py 38-45: missing credentials end the run with status 1
CheckCredentials ==
    /\ pc = "start"
    /\ IF username \in {"None", ""} \/ api_token \in {"None", ""}
       THEN Exit(1)
       ELSE pc' = "url" /\ UNCHANGED exit_status
    /\ UNCHANGED <<entry, username, api_token, confluence_url, confluence, output_dir, faults>>
    /\ UNCHANGED discoveryVars
    /\ UNCHANGED exportVars
    /\ UNCHANGED callVars

\* main.py 51-59: read the URL; an empty one ends the run with status 1
ReadUrl ==
    /\ pc = "url"
    /\ \E url \in Urls :
          /\ confluence_url' = url
          /\ IF url = <<>>
             THEN Exit(1) /\ entry' = "unresolved" /\ UNCHANGED dirs
             ELSE /\ pc' = "connect"
                  /\ dirs' = dirs \cup {OutputRoot}
                  /\ UNCHANGED <<exit_status, entry>>
    /\ UNCHANGED <<username, api_token, confluence, output_dir, faults>>
    /\ UNCHANGED discoveryVars
    /\ UNCHANGED <<export_index, export_log, files>>
    /\ UNCHANGED callVars

\* main.py 61-65 with ConfluenceClient.__init__ as written: the object gets username,
\* api_token, page_url, base_url, page_id, is_folder, api_base and session, and no
\* is_space or space_key attribute ("missing"). A ValueError of the URL parser is
\* caught at main.py 247-249.
Connect ==
    /\ pc = "connect"
    /\ LET parsed == ParseConfluenceUrl(confluence_url)
       IN  IF parsed.page_id = 0
           THEN Raise /\ entry' = "unresolved" /\ UNCHANGED confluence
           ELSE /\ confluence' = [page_id |-> parsed.page_id,
                                  is_folder |-> parsed.is_folder,
                                  is_space |-> "missing"]
                /\ pc' = "entry"
                /\ UNCHANGED <<exit_status, entry>>
    /\ UNCHANGED <<username, api_token, confluence_url, output_dir, faults>>
    /\ UNCHANGED discoveryVars
    /\ UNCHANGED exportVars
    /\ UNCHANGED callVars

\* The same step against a client that carries the is_space attribute main.py reads
\* (main.py 76, 241); its value is not derived anywhere in the sources.
ConnectSpaceAware ==
    /\ pc = "connect"
    /\ LET parsed == ParseConfluenceUrl(confluence_url)
       IN  IF parsed.page_id = 0
           THEN Raise /\ entry' = "unresolved" /\ UNCHANGED confluence
           ELSE /\ \E sp \in {"true", "false"} :
                      confluence' = [page_id |-> parsed.page_id,
                                     is_folder |-> parsed.is_folder,
                                     is_space |-> sp]
                /\ pc' = "entry"
                /\ UNCHANGED <<exit_status, entry>>
    /\ UNCHANGED <<username, api_token, confluence_url, output_dir, faults>>
    /\ UNCHANGED discoveryVars
    /\ UNCHANGED exportVars
    /\ UNCHANGED callVars

(* --------------------------- the content service ------------------------ *)
\* os.path.join(a, b)
OsPathJoin(a, b) ==
    IF b # <<>> /\ Head(b) = "/" THEN b
    ELSE IF a = <<>> \/ a[Len(a)] = "/" THEN a \o b
    ELSE a \o <<"/">> \o b

\* space_info['name']
SpaceName == <<"S", ":", "K">>

\* lists of distinct content IDs of length at most k
Listings(k) ==
    UNION {{s \in [1..m -> Nodes] : \A i, j \in 1..m : s[i] = s[j] => i = j} : m \in 0..k}

Min(a, b) == IF a <= b THEN a ELSE b

\* what one children fetch can answer now: a list ("ok"), or a raised exception ("err")
Responses ==
    {Answer("ok", l) : l \in Listings(Min(MaxChildren, MaxEdges - edges))} \cup
    (IF faults < MaxFaults THEN {Answer("err", <<>>)} ELSE {})

\* len(results) of an answer
Size(resp) == Len(resp.items)

Failed(resp) == IF resp.status = "err" THEN 1 ELSE 0

\* the 'type' values of the items of a space's top-level listing
ItemTypes == {"page", "folder", "blogpost"}

\* what get_space_content can answer: a list of (id, type) items
SpaceListings ==
    UNION {{[i \in 1..Len(l) |-> [id |-> l[i], type |-> t[i]]] :
              t \in [1..Len(l) -> ItemTypes]} : l \in Listings(Min(MaxChildren, MaxEdges))}

(* ------------------------------ entry point ----------------------------- *)
QueueItem(id, type, path) == [id |-> id, type |-> type, path |-> path]

Logged(item, parent) ==
    [id |-> item.id, type |-> item.type, path |-> item.path, parent |-> parent]

\* main.py 95-102: one queue entry per top-level item of the space
SpaceSeed(content) ==
    IF content.type = "folder"
    THEN QueueItem(content.id, content.type, Title(content.id))
    ELSE QueueItem(content.id, content.type, <<>>)

\* main.py 76 against ConfluenceClient as written: reading confluence.is_space raises
\* AttributeError, which main.py 247-249 turns into exit status 1
EntryUnresolved ==
    /\ pc = "entry"
    /\ confluence.is_space = "missing"
    /\ Raise
    /\ entry' = "unresolved"
    /\ UNCHANGED <<username, api_token, confluence_url, confluence, output_dir, faults>>
    /\ UNCHANGED discoveryVars
    /\ UNCHANGED exportVars
    /\ UNCHANGED callVars

\* main.py 76-102: space entry point
EntrySpace ==
    /\ pc = "entry"
    /\ confluence.is_space = "true"
    /\ \/ \* get_space_info raises
          /\ Raise
          /\ entry' = "unresolved"
          /\ UNCHANGED <<output_dir, dirs, todo_queue, enqueued, edges>>
       \/ \* get_space_content raises
          /\ Raise
          /\ entry' = "unresolved"
          /\ output_dir' = OsPathJoin(OutputRoot, SpaceName)
          /\ dirs' = dirs \cup {OsPathJoin(OutputRoot, SpaceName)}
          /\ UNCHANGED <<todo_queue, enqueued, edges>>
       \/ \E space_content \in SpaceListings :
             LET seeds == [i \in 1..Len(space_content) |-> SpaceSeed(space_content[i])]
             IN  /\ output_dir' = OsPathJoin(OutputRoot, SpaceName)
                 /\ dirs' = dirs \cup {OsPathJoin(OutputRoot, SpaceName)}
                 /\ todo_queue' = todo_queue \o seeds
                 /\ enqueued' = enqueued \o [i \in 1..Len(seeds) |-> Logged(seeds[i], 0)]
                 /\ edges' = edges + Len(seeds)
                 /\ pc' = "discover"
                 /\ entry' = "resolved"
                 /\ UNCHANGED exit_status
    /\ UNCHANGED <<username, api_token, confluence_url, confluence, faults>>
    /\ UNCHANGED <<processed_ids, all_pages_with_paths, fetched, expanded>>
    /\ UNCHANGED <<export_index, export_log, files>>
    /\ UNCHANGED callVars

\* main.py 104-112: folder entry point
EntryFolder ==
    /\ pc = "entry"
    /\ confluence.is_space = "false"
    /\ confluence.is_folder
    /\ \/ \* get_folder_info raises
          /\ Raise
          /\ entry' = "unresolved"
          /\ UNCHANGED <<todo_queue, enqueued>>
       \/ LET seed == QueueItem(confluence.page_id, "folder", Title(confluence.page_id))
          IN  /\ todo_queue' = Append(todo_queue, seed)
              /\ enqueued' = Append(enqueued, Logged(seed, 0))
              /\ pc' = "discover"
              /\ entry' = "resolved"
              /\ UNCHANGED exit_status
    /\ UNCHANGED <<username, api_token, confluence_url, confluence, output_dir, faults>>
    /\ UNCHANGED <<processed_ids, all_pages_with_paths, fetched, expanded, edges>>
    /\ UNCHANGED exportVars
    /\ UNCHANGED callVars

\* main.py 114-121: page entry point
EntryPage ==
    /\ pc = "entry"
    /\ confluence.is_space = "false"
    /\ ~confluence.is_folder
    /\ \/ \* get_page_info raises
          /\ Raise
          /\ entry' = "unresolved"
          /\ UNCHANGED <<todo_queue, enqueued>>
       \/ LET seed == QueueItem(confluence.page_id, "page", <<>>)
          IN  /\ todo_queue' = Append(todo_queue, seed)
              /\ enqueued' = Append(enqueued, Logged(seed, 0))
              /\ pc' = "discover"
              /\ entry' = "resolved"
              /\ UNCHANGED exit_status
    /\ UNCHANGED <<username, api_token, confluence_url, confluence, output_dir, faults>>
    /\ UNCHANGED <<processed_ids, all_pages_with_paths, fetched, expanded, edges>>
    /\ UNCHANGED exportVars
    /\ UNCHANGED callVars

(* ------------------------------ discovery ------------------------------- *)
\* the membership test left out: nothing is ever recognised as processed
AlreadyProcessedNever(content_id, processed) == FALSE

\* main.py 129: if content_id in processed_ids
AlreadyProcessed(content_id, processed) == content_id \in processed

\* the dequeued ID is not recorded
MarkProcessedSkipped(processed, content_id) == processed

\* main.py 131: processed_ids.add(content_id)
MarkProcessed(processed, content_id) == processed \cup {content_id}

\* the children of an answer that pass "child['id'] not in processed_ids";
\* a raised fetch contributes none (main.py 158, 168, 181, 193)
Unprocessed(resp, processed) ==
    IF resp.status = "err" THEN <<>>
    ELSE SelectSeq(resp.items, LAMBDA c : c \notin processed)

\* the page's own title is not added for its children
ChildPathFlat(current_path, content_id) == current_path

\* main.py 149-150: the path under which the children of a page are placed
ChildPath(current_path, content_id) == PathUnder(current_path, Title(content_id))

\* main.py 154-157: queue entries for the page children of a page
PageChildPages(resp, child_path, processed) ==
    LET cs == Unprocessed(resp, processed)
    IN  [i \in 1..Len(cs) |-> QueueItem(cs[i], "page", child_path)]

\* main.py 162-167: queue entries for the folder children of a page
PageChildFolders(resp, child_path, processed) ==
    LET cs == Unprocessed(resp, processed)
    IN  [i \in 1..Len(cs) |-> QueueItem(cs[i], "folder", PathSlash(child_path, Title(cs[i])))]

\* main.py 176-180: queue entries for the pages of a folder
FolderPages(resp, current_path, processed) ==
    LET cs == Unprocessed(resp, processed)
    IN  [i \in 1..Len(cs) |-> QueueItem(cs[i], "page", current_path)]

\* main.py 186-192: queue entries for the subfolders of a folder
FolderSubfolders(resp, current_path, processed) ==
    LET cs == Unprocessed(resp, processed)
    IN  [i \in 1..Len(cs) |-> QueueItem(cs[i], "folder", PathUnder(current_path, Title(cs[i])))]

\* main.py 126: todo_queue.pop(0) takes the oldest entry
NextItem(queue) == Head(queue)

\* the oldest entry is read and left in the queue
RemainingWithHead(queue) == queue

Remaining(queue) == Tail(queue)

\* new entries are put in front of the waiting ones
EnqueueFront(queue, items) == items \o queue

\* main.py 157, 167, 180, 192: todo_queue.append puts new entries behind the waiting ones
Enqueue(queue, items) == queue \o items

\* one try block around both fetches: after a failed first fetch the second is not made
SecondFetchSkipped(first, responses) ==
    IF first.status = "err" THEN {Answer("none", <<>>)} ELSE responses

\* main.py 153-169, 175-194: the second children fetch has a try block of its own, so it is
\* made with every possible answer whatever the first fetch did
SecondFetch(first, responses) == responses

\* every dequeued kind is appended
IsExportedAlways(content_type) == TRUE

\* main.py 143: which dequeued kinds are appended to the export list
IsExported(content_type) == content_type = "page"

\* the folder children are queued before the page children
ChildrenOrderFoldersFirst(page_items, folder_items) == folder_items \o page_items

\* main.py 153-169, 175-194: the block that queues the page children runs before the
\* block that queues the folder children
ChildrenOrder(page_items, folder_items) == page_items \o folder_items

\* the bookkeeping shared by the two expanding branches
Expand(item, rp, rf, new_items) ==
    /\ todo_queue' = Enqueue(Remaining(todo_queue), new_items)
    /\ enqueued' = enqueued \o [i \in 1..Len(new_items) |-> Logged(new_items[i], item.id)]
    /\ fetched' = [fetched EXCEPT ![item.id] = [page |-> rp, folder |-> rf]]
    /\ expanded' = Append(expanded, item)
    /\ edges' = edges + Size(rp) + Size(rf)
    /\ faults' = faults + Failed(rp) + Failed(rf)

\* main.py 125-130: an entry whose ID was processed before is dropped
SkipProcessed ==
    /\ pc = "discover"
    /\ todo_queue # <<>>
    /\ AlreadyProcessed(NextItem(todo_queue).id, processed_ids)
    /\ todo_queue' = Remaining(todo_queue)
    /\ UNCHANGED <<pc, exit_status, entry, username, api_token, confluence_url, confluence,
                   output_dir, faults>>
    /\ UNCHANGED <<processed_ids, all_pages_with_paths, enqueued, fetched, expanded, edges>>
    /\ UNCHANGED exportVars
    /\ UNCHANGED callVars

\* main.py 125-169: one loop iteration for an entry of kind 'page'
DiscoverPage ==
    /\ pc = "discover"
    /\ todo_queue # <<>>
    /\ LET item == NextItem(todo_queue)
           processed == MarkProcessed(processed_ids, item.id)
           child_path == ChildPath(item.path, item.id)
       IN  /\ ~AlreadyProcessed(item.id, processed_ids)
           /\ item.type = "page"
           /\ processed_ids' = processed
           /\ all_pages_with_paths' =
                 IF IsExported(item.type)
                 THEN Append(all_pages_with_paths, [id |-> item.id, path |-> item.path])
                 ELSE all_pages_with_paths
           /\ \E rp \in Responses :
                 \E rf \in {r \in SecondFetch(rp, Responses) :
                               /\ Size(rp) + Size(r) <= MaxEdges - edges
                               /\ Failed(rp) + Failed(r) <= MaxFaults - faults} :
                    Expand(item, rp, rf,
                           ChildrenOrder(PageChildPages(rp, child_path, processed),
                                         PageChildFolders(rf, child_path, processed)))
    /\ UNCHANGED <<pc, exit_status, entry, username, api_token, confluence_url, confluence,
                   output_dir>>
    /\ UNCHANGED exportVars
    /\ UNCHANGED callVars

\* main.py 125-141, 171-194: one loop iteration for an entry of kind 'folder'
DiscoverFolder ==
    /\ pc = "discover"
    /\ todo_queue # <<>>
    /\ LET item == NextItem(todo_queue)
           processed == MarkProcessed(processed_ids, item.id)
       IN  /\ ~AlreadyProcessed(item.id, processed_ids)
           /\ item.type = "folder"
           /\ processed_ids' = processed
           /\ all_pages_with_paths' =
                 IF IsExported(item.type)
                 THEN Append(all_pages_with_paths, [id |-> item.id, path |-> item.path])
                 ELSE all_pages_with_paths
           /\ \E rp \in Responses :
                 \E rf \in {r \in SecondFetch(rp, Responses) :
                               /\ Size(rp) + Size(r) <= MaxEdges - edges
                               /\ Failed(rp) + Failed(r) <= MaxFaults - faults} :
                    Expand(item, rp, rf,
                           ChildrenOrder(FolderPages(rp, item.path, processed),
                                         FolderSubfolders(rf, item.path, processed)))
    /\ UNCHANGED <<pc, exit_status, entry, username, api_token, confluence_url, confluence,
                   output_dir>>
    /\ UNCHANGED exportVars
    /\ UNCHANGED callVars

\* main.py 125-143, 171: an entry of any other kind is marked processed and dropped
DiscoverOther ==
    /\ pc = "discover"
    /\ todo_queue # <<>>
    /\ LET item == NextItem(todo_queue)
       IN  /\ ~AlreadyProcessed(item.id, processed_ids)
           /\ item.type \notin {"page", "folder"}
           /\ processed_ids' = MarkProcessed(processed_ids, item.id)
           /\ all_pages_with_paths' =
                 IF IsExported(item.type)
                 THEN Append(all_pages_with_paths, [id |-> item.id, path |-> item.path])
                 ELSE all_pages_with_paths
           /\ todo_queue' = Remaining(todo_queue)
           /\ expanded' = Append(expanded, item)
    /\ UNCHANGED <<pc, exit_status, entry, username, api_token, confluence_url, confluence,
                   output_dir, faults>>
    /\ UNCHANGED <<enqueued, fetched, edges>>
    /\ UNCHANGED exportVars
    /\ UNCHANGED callVars

\* main.py 125, 196-200: the queue is empty; nothing found ends the run with status 0.
\* The histories of the discovery phase and its edge counter are closed here.
EndDiscovery ==
    /\ pc = "discover"
    /\ todo_queue = <<>>
    /\ IF all_pages_with_paths = <<>>
       THEN Exit(0)
       ELSE pc' = "export" /\ UNCHANGED exit_status
    /\ enqueued' = <<>>
    /\ fetched' = [n \in Nodes |-> NotFetched]
    /\ expanded' = <<>>
    /\ edges' = 0
    /\ UNCHANGED <<entry, username, api_token, confluence_url, confluence, output_dir, faults>>
    /\ UNCHANGED <<todo_queue, processed_ids, all_pages_with_paths>>
    /\ UNCHANGED exportVars
    /\ UNCHANGED callVars

(* ------------------------ the discovery loop on its own ----------------- *)
\* the queue as an entry branch leaves it, with the history of its entries
Seeded(client, seeds) ==
    /\ confluence = client
    /\ todo_queue = seeds
    /\ enqueued = [i \in 1..Len(seeds) |-> Logged(seeds[i], 0)]
    /\ edges = IF client.is_space = "true" THEN Len(seeds) ELSE 0
    /\ output_dir = IF client.is_space = "true" THEN OsPathJoin(OutputRoot, SpaceName)
                    ELSE OutputRoot
    /\ dirs = IF client.is_space = "true" THEN {OsPathJoin(OutputRoot, SpaceName)} ELSE {}

\* main.py 125: the state in which the while loop is entered, after any of the three
\* entry branches (main.py 76-121)
InitDiscover ==
    /\ pc = "discover"
    /\ exit_status = -1
    /\ username = "user"
    /\ api_token = "token"
    /\ confluence_url \in {u \in Urls : ParseConfluenceUrl(u).page_id # 0}
    /\ LET parsed == ParseConfluenceUrl(confluence_url)
           client(sp) == [page_id |-> parsed.page_id, is_folder |-> parsed.is_folder,
                          is_space |-> sp]
       IN  \/ \E space_content \in SpaceListings :
                 Seeded(client("true"),
                        [i \in 1..Len(space_content) |-> SpaceSeed(space_content[i])])
           \/ /\ parsed.is_folder
              /\ Seeded(client("false"),
                        <<QueueItem(parsed.page_id, "folder", Title(parsed.page_id))>>)
           \/ /\ ~parsed.is_folder
              /\ Seeded(client("false"), <<QueueItem(parsed.page_id, "page", <<>>)>>)
    /\ processed_ids = {}
    /\ all_pages_with_paths = <<>>
    /\ fetched = [n \in Nodes |-> NotFetched]
    /\ expanded = <<>>
    /\ entry = "resolved"
    /\ faults = 0
    /\ export_index = 0
    /\ export_log = <<>>
    /\ files = {}
    /\ arg_page_info = NoPageInfo
    /\ arg_relative_path = <<>>
    /\ contributors_data = <<>>
    /\ sorted_contributors = <<>>
    /\ http_responses = <<>>
    /\ all_items = <<>>
    /\ start = 0

(* ------------------------- per-page service content --------------------- *)
\* the attachment titles get_page_attachments lists for a page
AttachmentsOf(n) ==
    CASE n = 2 -> << <<"a">>, <<"b">> >>
      [] n = 3 -> << <<"a", "?">> >>
      [] n = 4 -> << <<".", ".", "/", "b">> >>
      [] OTHER -> <<>>

\* accountIds of contributors.publishers.users of the page's history
PublishersOf(n) ==
    CASE n = 1 -> <<1, 2, 1>>
      [] n = 2 -> <<2>>
      [] OTHER -> <<>>

\* displayName of an account: "Zo A", "Y, a" and "b"
DisplayName(account_id) ==
    CASE account_id = 1 -> <<"Z", "o", " ", "A">>
      [] account_id = 2 -> <<"Y", ",", " ", "a">>
      [] OTHER -> <<"b">>

\* accountId of history.createdBy (0: not reported)
CreatorOf(n) ==
    CASE n = 1 -> 1
      [] n = 2 -> 3
      [] n = 3 -> 1
      [] OTHER -> 0

\* accountId of version.by (0: not reported)
ModifierOf(n) ==
    CASE n = 1 -> 2
      [] n = 2 -> 2
      [] n = 3 -> 1
      [] OTHER -> 0

\* the version numbers of the page's version history, as the service lists them
VersionsOf(n) ==
    CASE n = 1 -> <<1, 2>>
      [] n = 2 -> <<3, 1, 2>>
      [] OTHER -> <<>>

(* ------------------------------ sanitizers ------------------------------ *)
\* [<>:"|?*]
IllegalPathChars == {"<", ">", ":", "\"", "|", "?", "*"}

\* [<>:"/\\|?*]
IllegalFilenameChars == IllegalPathChars \cup {"/", "\\"}

\* pdf_exporter.py 105-106: the longest sanitized filename
MaxFilenameLen == 200

\* re.sub('[chars]', '', s)
RemoveChars(s, chars) == SelectSeq(s, LAMBDA c : c \notin chars)

\* re.sub(r'/+', '/', s): a '/' that follows a '/' is dropped
CollapseSlashes(s) ==
    LET with_previous == [i \in 1..Len(s) |-> <<s[i], IF i > 1 THEN s[i - 1] ELSE "">>]
        kept == SelectSeq(with_previous, LAMBDA p : ~(p[1] = "/" /\ p[2] = "/"))
    IN  [i \in 1..Len(kept) |-> kept[i][1]]

RECURSIVE LStrip(_, _)
LStrip(s, c) == IF s # <<>> /\ Head(s) = c THEN LStrip(Tail(s), c) ELSE s

RECURSIVE RStrip(_, _)
RStrip(s, c) ==
    IF s # <<>> /\ s[Len(s)] = c THEN RStrip(SubSeq(s, 1, Len(s) - 1), c) ELSE s

\* s.strip(c)
Strip(s, c) == RStrip(LStrip(s, c), c)

\* the slashes are collapsed and stripped before the illegal characters are removed
SanitizePathRemoveLast(path) ==
    RemoveChars(Strip(CollapseSlashes(path), "/"), IllegalPathChars)

\* PDFExporter._sanitize_path
SanitizePath(path) == Strip(CollapseSlashes(RemoveChars(path, IllegalPathChars)), "/")

\* PDFExporter._sanitize_filename
SanitizeFilename(filename) ==
    LET removed == RemoveChars(filename, IllegalFilenameChars)
        replaced == [i \in 1..Len(removed) |-> IF removed[i] = " " THEN "_" ELSE removed[i]]
    IN  IF Len(replaced) > MaxFilenameLen THEN SubSeq(replaced, 1, MaxFilenameLen)
        ELSE replaced

\* s.startswith(prefix)
StartsWith(s, prefix) ==
    Len(s) >= Len(prefix) /\ SubSeq(s, 1, Len(prefix)) = prefix

RECURSIVE ReplaceAll(_, _, _)
\* s.replace(old, new), old non-empty
ReplaceAll(s, old, new) ==
    LET starts == {i \in 1..Len(s) : StartsWith(SubSeq(s, i, Len(s)), old)}
    IN  IF starts = {} THEN s
        ELSE LET first == CHOOSE i \in starts : \A j \in starts : i <= j
             IN  SubSeq(s, 1, first - 1) \o new \o
                 ReplaceAll(SubSeq(s, first + Len(old), Len(s)), old, new)

PdfExt == <<".", "p", "d", "f">>

HtmlExt == <<".", "h", "t", "m", "l">>

AttachmentsSuffix == <<"_", "a", "t", "t", "a", "c", "h", "m", "e", "n", "t", "s">>

(* ------------------------------ enrichment ------------------------------ *)
RECURSIVE AddAll(_, _)
\* confluence_client.py 177-189: publishers not yet collected are added in order
AddAll(contributors, users) ==
    IF users = <<>> THEN contributors
    ELSE LET account_id == Head(users)
             known == \E i \in 1..Len(contributors) : contributors[i].accountId = account_id
         IN  AddAll(IF account_id # 0 /\ ~known
                    THEN Append(contributors, [displayName |-> DisplayName(account_id),
                                               accountId |-> account_id,
                                               isCreator |-> FALSE])
                    ELSE contributors,
                    Tail(users))

\* the creator and the last modifier are appended without a look at the collected ones
AddCreatorAndModifierUnchecked(contributors, page_id) ==
    LET creator == CreatorOf(page_id)
        with_creator ==
            IF creator # 0
            THEN Append(contributors, [displayName |-> DisplayName(creator),
                                       accountId |-> creator, isCreator |-> TRUE])
            ELSE contributors
        modifier == ModifierOf(page_id)
    IN  IF modifier # 0
        THEN Append(with_creator, [displayName |-> DisplayName(modifier),
                                   accountId |-> modifier, isCreator |-> FALSE])
        ELSE with_creator

\* confluence_client.py 206-232: the creator, then the last modifier, when missing
AddCreatorAndModifier(contributors, page_id) ==
    LET has(cs, a) == \E i \in 1..Len(cs) : cs[i].accountId = a
        creator == CreatorOf(page_id)
        with_creator ==
            IF creator # 0 /\ ~has(contributors, creator)
            THEN Append(contributors, [displayName |-> DisplayName(creator),
                                       accountId |-> creator, isCreator |-> TRUE])
            ELSE contributors
        modifier == ModifierOf(page_id)
    IN  IF modifier # 0 /\ ~has(with_creator, modifier)
        THEN Append(with_creator, [displayName |-> DisplayName(modifier),
                                   accountId |-> modifier, isCreator |-> FALSE])
        ELSE with_creator

\* ConfluenceClient.get_page_properties: the 'contributors' entry of the result, given
\* whether the history request and the creator/modifier request succeed
GetPageProperties(page_id, history, creator) ==
    IF history # "ok" THEN <<>>
    ELSE LET publishers == AddAll(<<>>, PublishersOf(page_id))
         IN  IF creator = "ok" THEN AddCreatorAndModifier(publishers, page_id)
             ELSE publishers

\* main.py 229-235: the attachment list handed to export_to_pdf
GetAttachments(page_id, listing) ==
    IF listing = "ok" THEN AttachmentsOf(page_id) ELSE <<>>

\* pdf_exporter.py 617-626: the versions added to the document
GetVersions(page_id, versions) ==
    IF versions = "ok" THEN VersionsOf(page_id) ELSE <<>>

\* one try block around the contributor and the attachment fetch: a failure of either
\* leaves both empty
EnrichOneTry(page_id, history, creator, listing) ==
    IF history = "ok" /\ listing = "ok"
    THEN [contributors |-> GetPageProperties(page_id, history, creator),
          attachments |-> GetAttachments(page_id, listing)]
    ELSE [contributors |-> <<>>, attachments |-> <<>>]

\* main.py 217-235: the contributors and the attachments handed to export_to_pdf; each
\* fetch has a try block of its own
Enrich(page_id, history, creator, listing) ==
    [contributors |-> GetPageProperties(page_id, history, creator),
     attachments |-> GetAttachments(page_id, listing)]

(* ------------------------------ composition ----------------------------- *)
\* the characters of the display names, in the order of their code points: Python
\* compares two str keys code point by code point
CodePoints ==
    <<"\t", " ", ",", "A", "Y", "Z", "a", "b", "d", "e", "g", "m", "n", "o", "s", "u",
      "y", "z">>

\* ord(c), as the rank of c among the characters of the model
Ord(c) == CHOOSE i \in 1..Len(CodePoints) : CodePoints[i] = c

\* the key of a str in a comparison
StrKey(s) == [i \in 1..Len(s) |-> Ord(s[i])]

\* what str.strip() and str.split() without an argument take for white space
Whitespace == {" ", "\t"}

\* s.lower()
Lower(s) ==
    [i \in 1..Len(s) |-> CASE s[i] = "A" -> "a"
                            [] s[i] = "Y" -> "y"
                            [] s[i] = "Z" -> "z"
                            [] OTHER -> s[i]]

\* s.strip()
StripWhitespace(s) ==
    LET inked == {i \in 1..Len(s) : s[i] \notin Whitespace}
    IN  IF inked = {} THEN <<>>
        ELSE SubSeq(s, CHOOSE i \in inked : \A j \in inked : i <= j,
                       CHOOSE i \in inked : \A j \in inked : i >= j)

RECURSIVE Split(_, _)
\* s.split(sep)
Split(s, sep) ==
    LET at == {i \in 1..Len(s) : s[i] = sep}
    IN  IF at = {} THEN <<s>>
        ELSE LET first == CHOOSE i \in at : \A j \in at : i <= j
             IN  <<SubSeq(s, 1, first - 1)>> \o Split(SubSeq(s, first + 1, Len(s)), sep)

RECURSIVE SplitWhitespace(_)
\* s.split(): the words between runs of white space
SplitWhitespace(s) ==
    LET inked == {i \in 1..Len(s) : s[i] \notin Whitespace}
    IN  IF inked = {} THEN <<>>
        ELSE LET first == CHOOSE i \in inked : \A j \in inked : i <= j
                 blank == {i \in first..Len(s) : s[i] \in Whitespace}
                 last == IF blank = {} THEN Len(s)
                         ELSE (CHOOSE i \in blank : \A j \in blank : i <= j) - 1
             IN  <<SubSeq(s, first, last)>> \o SplitWhitespace(SubSeq(s, last + 1, Len(s)))

\* the first name is lower-cased only when it is taken from a "Last, First" name
GetFirstNameCaseKept(displayName) ==
    LET name == StripWhitespace(displayName)
    IN  IF Contains(name, ",") THEN Lower(StripWhitespace(Split(name, ",")[2]))
        ELSE LET parts == SplitWhitespace(name)
             IN  IF parts # <<>> THEN parts[1] ELSE name

\* get_first_name of _parse_and_sort_contributors, for the displayName of a contributor
GetFirstName(displayName) ==
    LET name == StripWhitespace(displayName)
    IN  IF Contains(name, ",") THEN Lower(StripWhitespace(Split(name, ",")[2]))
        ELSE LET parts == SplitWhitespace(name)
             IN  IF parts # <<>> THEN Lower(parts[1]) ELSE Lower(name)

RECURSIVE KeyLess(_, _)
\* a < b for two keys, each a sequence of numbers: the first difference decides, and a
\* proper prefix is the smaller
KeyLess(a, b) ==
    IF b = <<>> THEN FALSE
    ELSE IF a = <<>> THEN TRUE
    ELSE IF Head(a) # Head(b) THEN Head(a) < Head(b)
    ELSE KeyLess(Tail(a), Tail(b))

RECURSIVE InsertByKey(_, _)
\* the pair x = <<key, item>> put behind every pair whose key is not greater: one step
\* of a stable sort
InsertByKey(x, sorted) ==
    IF sorted = <<>> THEN <<x>>
    ELSE IF KeyLess(x[1], Head(sorted)[1]) THEN <<x>> \o sorted
    ELSE <<Head(sorted)>> \o InsertByKey(x, Tail(sorted))

RECURSIVE SortedByKey(_)
\* list.sort(key=...) / sorted(..., key=...) on <<key, item>> pairs: ascending, stable
SortedByKey(pairs) ==
    IF pairs = <<>> THEN <<>>
    ELSE InsertByKey(pairs[Len(pairs)], SortedByKey(SubSeq(pairs, 1, Len(pairs) - 1)))

Items(pairs) == [i \in 1..Len(pairs) |-> pairs[i][2]]

\* PDFExporter._parse_and_sort_contributors for a list: sorted by first name
ParseAndSortContributors(owners) ==
    Items(SortedByKey([i \in 1..Len(owners) |->
                          <<StrKey(GetFirstName(owners[i].displayName)), owners[i]>>]))

\* sorted(versions, key=number, reverse=True)
SortVersions(versions) ==
    Items(SortedByKey([i \in 1..Len(versions) |-> <<<<0 - versions[i]>>, versions[i]>>]))

\* pdf_exporter.py 600-609 with _create_contributors_html: no block for an empty list
ContributorsHtml(owners) ==
    IF owners = <<>> THEN <<>>
    ELSE <<[block |-> "contributors",
            rows |-> [i \in 1..Len(owners) |-> ParseAndSortContributors(owners)[i].accountId]]>>

\* pdf_exporter.py 611-614 with _create_attachments_html: no block for an empty list
AttachmentsHtml(attachments) ==
    IF attachments = <<>> THEN <<>>
    ELSE <<[block |-> "attachments", rows |-> attachments]>>

\* the rows are left in the order the service listed them
VersionHistoryHtmlAsListed(versions) ==
    IF versions = <<>> THEN <<>>
    ELSE <<[block |-> "versions", rows |-> versions]>>

\* pdf_exporter.py 621-623 with _create_version_history_html: no block for an empty
\* list, rows sorted by version number, newest first
VersionHistoryHtml(versions) ==
    IF versions = <<>> THEN <<>>
    ELSE <<[block |-> "versions", rows |-> SortVersions(versions)]>>

\* pdf_exporter.py 597-629 with _create_html_template: the blocks of full_html in
\* document order
ComposeDocument(title, owners, attachments, versions) ==
    <<[block |-> "title", rows |-> <<title>>]>> \o
    ContributorsHtml(owners) \o
    <<[block |-> "body", rows |-> <<>>]>> \o
    AttachmentsHtml(attachments) \o
    VersionHistoryHtml(versions)

(* ------------------------------ export ---------------------------------- *)
\* an outcome of one service call or render: "ok", or one of the given failures while the
\* fault bound allows one
Choices(budget, failures) == {"ok"} \cup (IF budget > 0 THEN failures ELSE {})

Cost(outcome) == IF outcome \in {"ok", "skipped"} THEN 0 ELSE 1

\* how one download_attachment call can end: True ("ok"); False without a file
\* (no download link, HTTP error status); False after the file was opened and partly
\* written (the stream breaks inside iter_content)
DownloadFailures == {"no_link", "http_error", "stream_error"}

RECURSIVE SumCost(_)
SumCost(outcomes) ==
    IF outcomes = <<>> THEN 0 ELSE Cost(Head(outcomes)) + SumCost(Tail(outcomes))

DownloadOutcomes(n, budget) ==
    {d \in [1..n -> {"ok"} \cup DownloadFailures] : SumCost(d) <= budget}

\* open(path, 'wb') / write_pdf(path) / open(path, 'w'): the file at path is replaced
WriteFile(fs, path, kind, state) ==
    {f \in fs : f.path # path} \cup {[path |-> path, kind |-> kind, state |-> state]}

\* pdf_exporter.py 566-572
OutputSubdir(base, relative_path) ==
    IF relative_path # <<>> THEN OsPathJoin(base, SanitizePath(relative_path)) ELSE base

\* the ID is left out of the filename
FilenameWithoutId(title, page_id) == SanitizeFilename(title) \o PdfExt

\* pdf_exporter.py 574: f"{self._sanitize_filename(title)}_{page_id}.pdf"
Filename(title, page_id) ==
    SanitizeFilename(title) \o <<"_">> \o IdStr(page_id) \o PdfExt

\* pdf_exporter.py 581: f"{self._sanitize_filename(title)}_{page_id}_attachments"
AttachmentsFolderName(title, page_id) ==
    SanitizeFilename(title) \o <<"_">> \o IdStr(page_id) \o AttachmentsSuffix

\* pdf_exporter.py 574
ArtifactName(page_id) == Filename(Title(page_id), page_id)

\* pdf_exporter.py 575
ArtifactPath(base, relative_path, page_id) ==
    OsPathJoin(OutputSubdir(base, relative_path), ArtifactName(page_id))

\* pdf_exporter.py 581-582
AttachmentsDir(base, relative_path, page_id) ==
    OsPathJoin(OutputSubdir(base, relative_path),
               AttachmentsFolderName(Title(page_id), page_id))

\* pdf_exporter.py 588-589
AttachmentPath(attachments_dir, att_title) == OsPathJoin(attachments_dir, att_title)

\* pdf_exporter.py 639
FallbackPath(filepath) == ReplaceAll(filepath, PdfExt, HtmlExt)

RECURSIVE Download(_, _, _, _)
\* pdf_exporter.py 587-595 with ConfluenceClient.download_attachment: every attachment is
\* tried in list order, whatever the earlier ones returned
Download(fs, attachments_dir, attachments, outcomes) ==
    IF attachments = <<>> THEN fs
    ELSE LET path == AttachmentPath(attachments_dir, Head(attachments))
             after == CASE Head(outcomes) = "ok" -> WriteFile(fs, path, "attachment", "complete")
                        [] Head(outcomes) = "stream_error" ->
                               WriteFile(fs, path, "attachment", "partial")
                        [] OTHER -> fs
         IN  Download(after, attachments_dir, Tail(attachments), Tail(outcomes))

\* the calls one export-loop iteration makes, in the order it makes them
StepsOf(attachments, render) ==
    <<"body", "contributors", "attachments", "export_to_pdf">> \o
    [i \in 1..Len(attachments) |-> "download"] \o
    <<"versions", "render">> \o
    (IF render = "ok" THEN <<>> ELSE <<"fallback">>)

\* main.py 215: get_page_content raises; the exception leaves the loop and main.py 247-249
\* ends the run with status 1
AbortAtBody(page) ==
    /\ export_log' = Append(export_log,
          [id |-> page.id, path |-> page.path, steps |-> <<"body">>, body |-> "err",
           history |-> "skipped", creator |-> "skipped", listing |-> "skipped",
           contributors |-> <<>>, attachments |-> <<>>, downloads |-> <<>>,
           versions |-> "skipped", version_rows |-> <<>>, document |-> <<>>, render |-> "skipped", fallback |-> "skipped"])
    /\ faults' = faults + 1
    /\ Raise
    /\ UNCHANGED <<files, dirs>>

\* main.py 217-238 and PDFExporter.export_to_pdf for one page
ExportToPdf(page, history, creator, listing, downloads, versions, render, fallback) ==
    LET contributors == Enrich(page.id, history, creator, listing).contributors
        attachments == Enrich(page.id, history, creator, listing).attachments
        output_subdir == OutputSubdir(output_dir, page.path)
        filepath == ArtifactPath(output_dir, page.path, page.id)
        attachments_dir == AttachmentsDir(output_dir, page.path, page.id)
        dirs1 == IF page.path # <<>> THEN dirs \cup {output_subdir} ELSE dirs
        dirs2 == IF attachments # <<>> THEN dirs1 \cup {attachments_dir} ELSE dirs1
        files1 == Download(files, attachments_dir, attachments, downloads)
        files2 == CASE render = "ok" -> WriteFile(files1, filepath, "pdf", "complete")
                    [] render = "write_error" -> WriteFile(files1, filepath, "pdf", "partial")
                    [] OTHER -> files1
        files3 == IF render # "ok" /\ fallback = "ok"
                  THEN WriteFile(files2, FallbackPath(filepath), "html", "complete")
                  ELSE files2
    IN  /\ export_log' = Append(export_log,
              [id |-> page.id, path |-> page.path, steps |-> StepsOf(attachments, render),
               body |-> "ok", history |-> history, creator |-> creator,
               listing |-> listing, contributors |-> contributors,
               attachments |-> attachments, downloads |-> downloads,
               versions |-> versions, version_rows |-> GetVersions(page.id, versions),
               document |-> ComposeDocument(Title(page.id), contributors, attachments,
                                            GetVersions(page.id, versions)),
               render |-> render, fallback |-> fallback])
        /\ faults' = faults + Cost(history) + Cost(creator) + Cost(listing)
                       + SumCost(downloads) + Cost(versions) + Cost(render) + Cost(fallback)
        /\ dirs' = dirs2
        /\ files' = files3
        /\ IF render # "ok" /\ fallback # "ok"
           THEN Raise
           ELSE UNCHANGED <<pc, exit_status>>

\* main.py 207-238: one iteration of the export loop
ExportPage ==
    /\ pc = "export"
    /\ export_index < Len(all_pages_with_paths)
    /\ export_index' = export_index + 1
    /\ LET page == all_pages_with_paths[export_index + 1]
           b0 == MaxFaults - faults
       IN  \E body \in Choices(b0, {"err"}) :
              IF body = "err" THEN AbortAtBody(page)
              ELSE
              \E history \in Choices(b0, {"err"}) :
              \E creator \in IF history = "ok"
                             THEN Choices(b0 - Cost(history), {"err"}) ELSE {"skipped"} :
              LET b1 == b0 - Cost(history) - Cost(creator) IN
              \E listing \in Choices(b1, {"err"}) :
              LET b2 == b1 - Cost(listing)
                  n == Len(GetAttachments(page.id, listing))
              IN
              \E downloads \in DownloadOutcomes(n, b2) :
              LET b3 == b2 - SumCost(downloads) IN
              \E versions \in Choices(b3, {"err"}) :
              LET b4 == b3 - Cost(versions) IN
              \E render \in Choices(b4, {"engine_error", "write_error"}) :
              LET b5 == b4 - Cost(render) IN
              \E fallback \in IF render = "ok" THEN {"skipped"} ELSE Choices(b5, {"err"}) :
                 ExportToPdf(page, history, creator, listing, downloads, versions,
                             render, fallback)
    /\ UNCHANGED <<entry, username, api_token, confluence_url, confluence, output_dir>>
    /\ UNCHANGED discoveryVars
    /\ UNCHANGED callVars

\* main.py 240-245: the loop is over; main returns, the process ends with status 0
Finish ==
    /\ pc = "export"
    /\ export_index = Len(all_pages_with_paths)
    /\ Exit(0)
    /\ UNCHANGED <<entry, username, api_token, confluence_url, confluence, output_dir, faults>>
    /\ UNCHANGED discoveryVars
    /\ UNCHANGED exportVars
    /\ UNCHANGED callVars

(* ---------------------- export_to_pdf on its own ------------------------- *)
\* number of pieces a title / a relative path is put together from
MaxTitlePieces == 2

MaxPathPieces == 3

\* number of export_to_pdf calls in a row
MaxCalls == 2

RECURSIVE PiecesUpTo(_, _)
\* the strings put together from at most n of the given pieces
PiecesUpTo(pieces, n) ==
    IF n = 0 THEN {<<>>}
    ELSE LET shorter == PiecesUpTo(pieces, n - 1)
         IN  shorter \cup {s \o q : s \in shorter, q \in pieces}

Pad(n) == [i \in 1..n |-> "a"]

\* page_info['title']: short titles with a space, an illegal character, a separator or
\* the text '.pdf'; two titles longer than the filename limit that differ in their last
\* character only; and one that is longer than the limit with a space and an illegal
\* character in it
Titles ==
    PiecesUpTo({<<"a">>, <<" ">>, <<":">>, <<"/">>, PdfExt}, MaxTitlePieces)
        \cup {Pad(MaxFilenameLen) \o <<"a">>, Pad(MaxFilenameLen) \o <<"b">>,
              <<" ">> \o Pad(MaxFilenameLen) \o <<":">>}

\* page_info['id']
PageIds == {1, 2}

\* relative_path: ancestor titles joined with '/'
RelativePaths == PiecesUpTo({<<"a">>, <<"/">>, <<":", "/">>, PdfExt}, MaxPathPieces)

\* os.path.dirname(path)
Dirname(path) ==
    LET slashes == {i \in 1..Len(path) : path[i] = "/"}
    IN  IF slashes = {} THEN <<>>
        ELSE SubSeq(path, 1, (CHOOSE i \in slashes : \A j \in slashes : j <= i) - 1)

\* os.makedirs(path, exist_ok=True): the directory and every missing ancestor
MakeDirs(path) ==
    LET p == RStrip(path, "/")
    IN  {p} \cup {SubSeq(p, 1, i - 1) : i \in {j \in 2..Len(p) : p[j] = "/"}}

\* PDFExporter(output_dir) is built (pdf_exporter.py 24-25) and export_to_pdf is about to
\* be called with a page_info and a relative_path
InitCall ==
    /\ pc = "export_to_pdf"
    /\ exit_status = -1
    /\ username = "user"
    /\ api_token = "token"
    /\ confluence_url = <<>>
    /\ confluence = NoClient
    /\ output_dir = OutputRoot
    /\ todo_queue = <<>>
    /\ processed_ids = {}
    /\ all_pages_with_paths = <<>>
    /\ enqueued = <<>>
    /\ fetched = [n \in Nodes |-> NotFetched]
    /\ expanded = <<>>
    /\ entry = "resolved"
    /\ edges = 0
    /\ faults = 0
    /\ export_index = 0
    /\ export_log = <<>>
    /\ files = {}
    /\ dirs = MakeDirs(OutputRoot)
    /\ arg_page_info \in [id : PageIds, title : Titles]
    /\ arg_relative_path \in RelativePaths
    /\ contributors_data = <<>>
    /\ sorted_contributors = <<>>
    /\ http_responses = <<>>
    /\ all_items = <<>>
    /\ start = 0

\* PDFExporter.export_to_pdf (pdf_exporter.py 562-575, 631-641) for arg_page_info and
\* arg_relative_path, without attachments: the render succeeds or the engine raises; in
\* the second case the markup is written to filepath.replace('.pdf', '.html'), and
\* open() raises when the directory of that path does not exist
ExportToPdfCall ==
    /\ pc = "export_to_pdf"
    /\ \E render \in {"ok", "engine_error"} :
          LET output_subdir == OutputSubdir(output_dir, arg_relative_path)
              filepath == OsPathJoin(output_subdir,
                                     Filename(arg_page_info.title, arg_page_info.id))
              html_filepath == FallbackPath(filepath)
              made == IF arg_relative_path # <<>>
                      THEN dirs \cup MakeDirs(output_subdir) ELSE dirs
              raised == render # "ok" /\ Dirname(html_filepath) \notin made
          IN  /\ dirs' = made
              /\ files' = IF render = "ok" THEN WriteFile(files, filepath, "pdf", "complete")
                          ELSE IF raised THEN files
                          ELSE WriteFile(files, html_filepath, "html", "complete")
              /\ export_log' = Append(export_log,
                    [id |-> arg_page_info.id, title |-> arg_page_info.title,
                     path |-> arg_relative_path, filepath |-> filepath,
                     render |-> render, raised |-> raised])
              /\ IF raised
                 THEN pc' = "done" /\ exit_status' = 1
                 ELSE pc' = "returned" /\ UNCHANGED exit_status
    /\ export_index' = export_index + 1
    /\ UNCHANGED <<entry, username, api_token, confluence_url, confluence, output_dir, faults>>
    /\ UNCHANGED discoveryVars
    /\ UNCHANGED callVars

\* main.py 207-238: the next page of the same directory, with another ID
NextCall ==
    /\ pc = "returned"
    /\ export_index < MaxCalls
    /\ pc' = "export_to_pdf"
    /\ \E id \in PageIds \ {export_log[i].id : i \in 1..Len(export_log)} :
       \E title \in Titles :
          arg_page_info' = [id |-> id, title |-> title]
    /\ UNCHANGED <<exit_status, entry, username, api_token, confluence_url, confluence,
                   output_dir, faults, arg_relative_path, contributors_data,
                   sorted_contributors>>
    /\ UNCHANGED fetchVars
    /\ UNCHANGED discoveryVars
    /\ UNCHANGED exportVars

(* ------------------ _parse_and_sort_contributors on its own ------------- *)
MaxContributors == 3

ZoeAdams == <<"Z", "o", "e", " ", "A", "d", "a", "m", "s">>

AdamYoung == <<"a", "d", "a", "m", " ", "Y", "o", "u", "n", "g">>

\* display names: "First Last", "Last, First", a name with two commas, a name with a
\* comma and a two-word first name, a padded single word, names whose words a
\* tabulator or a space separates, and the empty name
DisplayNames ==
    {ZoeAdams, AdamYoung,
     <<"Y", "o", "u", "n", "g", ",", " ", "a", "d", "a", "m">>,
     <<"Y", ",", " ", "b", ",", " ", "z">>,
     <<"Z", ",", " ", "b", " ", "a">>,
     <<" ", "z", "o", "e", " ">>,
     <<"a", "\t", "z">>,
     <<"a", " ", "b">>,
     <<>>}

\* the contributor lists get_page_properties can hand over: accountId is unique, here
\* the position in the list
ContributorLists ==
    UNION {{[i \in 1..n |-> [displayName |-> names[i], accountId |-> i,
                             isCreator |-> FALSE]] : names \in [1..n -> DisplayNames]}
           : n \in 0..MaxContributors}

InitSort ==
    /\ pc = "parse_and_sort"
    /\ exit_status = -1
    /\ username = "user"
    /\ api_token = "token"
    /\ confluence_url = <<>>
    /\ confluence = NoClient
    /\ output_dir = OutputRoot
    /\ todo_queue = <<>>
    /\ processed_ids = {}
    /\ all_pages_with_paths = <<>>
    /\ enqueued = <<>>
    /\ fetched = [n \in Nodes |-> NotFetched]
    /\ expanded = <<>>
    /\ entry = "resolved"
    /\ edges = 0
    /\ faults = 0
    /\ export_index = 0
    /\ export_log = <<>>
    /\ files = {}
    /\ dirs = MakeDirs(OutputRoot)
    /\ arg_page_info = NoPageInfo
    /\ arg_relative_path = <<>>
    /\ contributors_data \in ContributorLists
    /\ sorted_contributors = <<>>
    /\ http_responses = <<>>
    /\ all_items = <<>>
    /\ start = 0

\* PDFExporter._parse_and_sort_contributors (pdf_exporter.py 27-72) for a list, the
\* format get_page_properties produces: the list is sorted in place and returned;
\* contributors_data keeps the list as it was handed over
ParseAndSortCall ==
    /\ pc = "parse_and_sort"
    /\ sorted_contributors' = ParseAndSortContributors(contributors_data)
    /\ pc' = "sorted"
    /\ UNCHANGED <<exit_status, entry, username, api_token, confluence_url, confluence,
                   output_dir, faults, arg_page_info, arg_relative_path,
                   contributors_data>>
    /\ UNCHANGED fetchVars
    /\ UNCHANGED discoveryVars
    /\ UNCHANGED exportVars

(* ---------------------- _get_folder_contents on its own ------------------ *)
\* number of requests the service is asked to answer in one call
MaxRequests == 3

\* confluence_client.py 329: limit = 25, the page size of the listing
Limit == 25

\* what the service can answer to one request: a page of 0, 1 or limit results (status
\* 200), no such content (404), another HTTP error status (403, 500), or no answer at
\* all (status 0: the connection fails)
HttpResponses ==
    [status : {200}, size : {0, 1, Limit}] \cup [status : {404, 403, 500, 0}, size : {0}]

\* a full page is followed by another request, so the last answer is not a full page
ResponseLists ==
    UNION {{l \in [1..n -> HttpResponses] : ~(l[n].status = 200 /\ l[n].size = Limit)}
           : n \in 1..MaxRequests}

\* response.get('results', []) of the request that starts at offset: the items at the
\* positions offset + 1, offset + 2, ... of the listing
Results(offset, size) == [i \in 1..size |-> offset + i]

\* every error status ends the loop quietly
IsNotFoundAnyError(status) == status # 200

\* confluence_client.py 351: e.response.status_code == 404
IsNotFound(status) == status = 404

\* the answer to the request the loop makes now
CurrentResponse == http_responses[(start \div Limit) + 1]

InitFetch ==
    /\ pc = "get_folder_contents"
    /\ exit_status = -1
    /\ username = "user"
    /\ api_token = "token"
    /\ confluence_url = <<>>
    /\ confluence = NoClient
    /\ output_dir = OutputRoot
    /\ todo_queue = <<>>
    /\ processed_ids = {}
    /\ all_pages_with_paths = <<>>
    /\ enqueued = <<>>
    /\ fetched = [n \in Nodes |-> NotFetched]
    /\ expanded = <<>>
    /\ entry = "resolved"
    /\ edges = 0
    /\ faults = 0
    /\ export_index = 0
    /\ export_log = <<>>
    /\ files = {}
    /\ dirs = {}
    /\ arg_page_info = NoPageInfo
    /\ arg_relative_path = <<>>
    /\ contributors_data = <<>>
    /\ sorted_contributors = <<>>
    /\ http_responses \in ResponseLists
    /\ all_items = <<>>
    /\ start = 0

\* what no step of _get_folder_contents changes
FetchFrame ==
    /\ UNCHANGED <<exit_status, entry, username, api_token, confluence_url, confluence,
                   output_dir, faults>>
    /\ UNCHANGED discoveryVars
    /\ UNCHANGED exportVars
    /\ UNCHANGED <<arg_page_info, arg_relative_path, contributors_data,
                   sorted_contributors, http_responses>>

\* confluence_client.py 332-348: one iteration whose request is answered with results;
\* a page shorter than limit ends the loop and all_items is returned
FetchResults ==
    /\ pc = "get_folder_contents"
    /\ CurrentResponse.status = 200
    /\ LET results == Results(start, CurrentResponse.size)
       IN  /\ all_items' = all_items \o results
           /\ IF Len(results) < Limit
              THEN pc' = "returned" /\ UNCHANGED start
              ELSE pc' = pc /\ start' = start + Limit
    /\ FetchFrame

\* confluence_client.py 349-352, 355: raise_for_status raised HTTPError with status 404;
\* the loop ends and all_items is returned
FetchNotFound ==
    /\ pc = "get_folder_contents"
    /\ CurrentResponse.status # 200
    /\ CurrentResponse.status # 0
    /\ IsNotFound(CurrentResponse.status)
    /\ pc' = "returned"
    /\ UNCHANGED <<all_items, start>>
    /\ FetchFrame

\* confluence_client.py 349-353: HTTPError with another status is raised again; an
\* exception that is no HTTPError (status 0) is not caught at all
FetchRaises ==
    /\ pc = "get_folder_contents"
    /\ CurrentResponse.status # 200
    /\ CurrentResponse.status = 0 \/ ~IsNotFound(CurrentResponse.status)
    /\ pc' = "raised"
    /\ UNCHANGED <<all_items, start>>
    /\ FetchFrame

(* ------------------------------ run report ------------------------------ *)
\* export_to_pdf returned to main for this page: the render succeeded, or it failed and
\* the fallback write succeeded (pdf_exporter.py 631-641)
Returned(record) ==
    record.body = "ok" /\ (record.render = "ok" \/ record.fallback = "ok")

\* main.py 200: "Total pages discovered", the only total the run logs
DiscoveredTotal == Len(all_pages_with_paths)

\* main.py 207-238: the pages the loop went through; "Export completed!" (240-245)
\* speaks for all of them
ExportedTotal == Len(SelectSeq(export_log, Returned))

\* main.py 238: export_to_pdf returns nothing and handles its render failure itself,
\* so main holds no failed page
FailedTotal == 0

(* ------------------------------ specifications -------------------------- *)
\* main() against a client that provides what main.py and pdf_exporter.py use of it
Next ==
    \/ CheckCredentials
    \/ ReadUrl
    \/ ConnectSpaceAware
    \/ EntrySpace
    \/ EntryFolder
    \/ EntryPage
    \/ SkipProcessed
    \/ DiscoverPage
    \/ DiscoverFolder
    \/ DiscoverOther
    \/ EndDiscovery
    \/ ExportPage
    \/ Finish

Spec == Init /\ [][Next]_vars

\* main() against ConfluenceClient as written
NextMain ==
    \/ CheckCredentials
    \/ ReadUrl
    \/ Connect
    \/ EntryUnresolved

SpecMain == Init /\ [][NextMain]_vars

\* export_to_pdf called for two pages in a row
NextCalls ==
    \/ ExportToPdfCall
    \/ NextCall

SpecCalls == InitCall /\ [][NextCalls]_vars

\* _parse_and_sort_contributors called on its own, for every list of display names
NextSort == ParseAndSortCall

SpecSort == InitSort /\ [][NextSort]_vars

\* the discovery loop from its first iteration to line 196
NextDiscover ==
    \/ SkipProcessed
    \/ DiscoverPage
    \/ DiscoverFolder
    \/ DiscoverOther
    \/ EndDiscovery

\* main() is one sequential thread: while a step of the loop is possible the
\* interpreter takes it
SpecDiscover == InitDiscover /\ [][NextDiscover]_vars /\ WF_vars(NextDiscover)

\* one call of ConfluenceClient._get_folder_contents, for every list of answers
NextFetch ==
    \/ FetchResults
    \/ FetchNotFound
    \/ FetchRaises

SpecFetch == InitFetch /\ [][NextFetch]_vars

(* ------------------------------ claims ---------------------------------- *)
ExportedIds == {all_pages_with_paths[i].id : i \in 1..Len(all_pages_with_paths)}

ExportedAt(x) == {i \in 1..Len(all_pages_with_paths) : all_pages_with_paths[i].id = x}

\* the positions of the queue entries ever appended for ID x, and the first of them
EnqueuedAt(x) == {i \in 1..Len(enqueued) : enqueued[i].id = x}

FirstEnqueued(x) ==
    enqueued[CHOOSE i \in EnqueuedAt(x) : \A j \in EnqueuedAt(x) : i <= j]

\* the discovery loop has ended: the queue is empty and line 196 is next
DiscoveryOver == pc = "discover" /\ todo_queue = <<>>

\* C1: at every point of the run no content ID occurs twice in all_pages_with_paths.
C1_UniqueExportIds ==
    \A i, j \in 1..Len(all_pages_with_paths) :
        all_pages_with_paths[i].id = all_pages_with_paths[j].id => i = j

\* an exported ID that one parent returned from its page fetch and from its folder fetch
C1_Witness ==
    \E x \in ExportedIds : \E i, j \in EnqueuedAt(x) :
        /\ enqueued[i].parent = enqueued[j].parent
        /\ enqueued[i].parent # 0
        /\ enqueued[i].type = "page"
        /\ enqueued[j].type = "folder"

\* C2: every step that changes the export list appends the entry being dequeued, and
\* that entry has kind 'page'; entries of kind 'folder' or of another kind never append.
C2_OnlyPagesAppended ==
    [][all_pages_with_paths' # all_pages_with_paths =>
          /\ pc = "discover"
          /\ todo_queue # <<>>
          /\ NextItem(todo_queue).type = "page"
          /\ all_pages_with_paths' =
                Append(all_pages_with_paths,
                       [id |-> NextItem(todo_queue).id, path |-> NextItem(todo_queue).path])]_vars

\* a folder and an item of another kind were dequeued and processed, a page was exported
C2_Witness ==
    /\ all_pages_with_paths # <<>>
    /\ \E i, j \in 1..Len(expanded) :
          expanded[i].type = "folder" /\ expanded[j].type = "blogpost"

\* ID x was appended to the queue more than once, with different paths, from different
\* parents, and its first entry has kind 'page'
MultiPathPage(x) ==
    /\ \E i, j \in EnqueuedAt(x) :
          /\ enqueued[i].path # enqueued[j].path
          /\ enqueued[i].parent # enqueued[j].parent
    /\ FirstEnqueued(x).type = "page"

\* C3: a page ID enqueued several times with different paths is in the export list at
\* most once at any time, exactly once when the loop has ended, and always with the path
\* of its first queue entry.
C3_FirstEnqueuedPathWins ==
    pc = "discover" =>
        \A x \in Nodes : MultiPathPage(x) =>
            /\ Cardinality(ExportedAt(x)) <= 1
            /\ \A i \in ExportedAt(x) : all_pages_with_paths[i].path = FirstEnqueued(x).path
            /\ x \in processed_ids => Cardinality(ExportedAt(x)) = 1
            /\ DiscoveryOver => x \in processed_ids

C3_Witness ==
    /\ DiscoveryOver
    /\ \E x \in ExportedIds : MultiPathPage(x)

RECURSIVE AncestorTitles(_)
\* the titles of the proper ancestors of x on its first-discovery chain, entry point first
AncestorTitles(x) ==
    LET parent == FirstEnqueued(x).parent
    IN  IF parent = 0 THEN <<>> ELSE Append(AncestorTitles(parent), Title(parent))

\* the hierarchy of the example: folder 1 "F" holds page 2 "P1" and subfolder 3 "F2",
\* which holds page 4 "P2"; the pages have no children
ExampleHierarchy ==
    /\ confluence.is_space = "false"
    /\ confluence.is_folder
    /\ MaxNodes >= 4
    /\ fetched[1] = [page |-> Answer("ok", <<2>>), folder |-> Answer("ok", <<3>>)]
    /\ fetched[2] = [page |-> Answer("ok", <<>>), folder |-> Answer("ok", <<>>)]
    /\ fetched[3] = [page |-> Answer("ok", <<4>>), folder |-> Answer("ok", <<>>)]
    /\ fetched[4] = [page |-> Answer("ok", <<>>), folder |-> Answer("ok", <<>>)]

\* C4: the path recorded for an exported page is the '/'-joined titles of its proper
\* ancestors on its first-discovery chain; the example hierarchy yields
\* [(P1, "F"), (P2, "F/F2")].
C4_PathIsAncestorTitles ==
    pc = "discover" =>
        /\ \A i \in 1..Len(all_pages_with_paths) :
              all_pages_with_paths[i].path =
                  JoinSlash(AncestorTitles(all_pages_with_paths[i].id))
        /\ (DiscoveryOver /\ ExampleHierarchy) =>
              all_pages_with_paths =
                  << [id |-> 2, path |-> <<"F">>],
                     [id |-> 4, path |-> <<"F", "/", "F", "2">>] >>

C4_Witness == DiscoveryOver /\ ExampleHierarchy

Range(seq) == {seq[i] : i \in 1..Len(seq)}

\* C5 (as claimed): once the export loop has been entered, export_to_pdf is invoked for
\* every discovered page, whichever per-page step failed for an earlier one.
C5_EveryPageReachesExport ==
    (pc = "done" /\ entry = "resolved" /\ all_pages_with_paths # <<>>) =>
        /\ Len(export_log) = Len(all_pages_with_paths)
        /\ \A i \in 1..Len(export_log) :
              /\ export_log[i].id = all_pages_with_paths[i].id
              /\ "export_to_pdf" \in Range(export_log[i].steps)

\* x was presented as a page: seeded with kind 'page' or returned by a page fetch
PageListed(x) ==
    \/ \E i \in EnqueuedAt(x) : enqueued[i].parent = 0 /\ enqueued[i].type = "page"
    \/ \E n \in Nodes : fetched[n].page.status = "ok" /\ x \in Range(fetched[n].page.items)

\* x was presented as something else: seeded with another kind or returned by a folder fetch
OtherListed(x) ==
    \/ \E i \in EnqueuedAt(x) : enqueued[i].parent = 0 /\ enqueued[i].type # "page"
    \/ \E n \in Nodes : fetched[n].folder.status = "ok" /\ x \in Range(fetched[n].folder.items)

\* C6: a failed children fetch contributes no children and stops nothing: both fetches of
\* every expanded node are made, the loop is left only with an empty queue, every entry
\* ever queued is handled, and every page returned by a successful fetch is exported.
C6_FetchFailureIsNoChildren ==
    /\ pc = "discover" =>
          \A i \in 1..Len(expanded) :
              expanded[i].type \in {"page", "folder"} =>
                  /\ fetched[expanded[i].id].page.status # "none"
                  /\ fetched[expanded[i].id].folder.status # "none"
    /\ (entry = "resolved" /\ pc # "discover") => todo_queue = <<>>
    /\ DiscoveryOver =>
          /\ \A i \in 1..Len(enqueued) : enqueued[i].id \in processed_ids
          /\ \A x \in Nodes : (PageListed(x) /\ ~OtherListed(x)) => x \in ExportedIds

\* the page fetch of a node failed, its folder fetch returned a folder, and a page of
\* that folder is exported
C6_Witness ==
    /\ DiscoveryOver
    /\ \E n, g \in Nodes : \E x \in ExportedIds :
          /\ fetched[n].page.status = "err"
          /\ g \in Range(fetched[n].folder.items)
          /\ FirstEnqueued(g).parent = n
          /\ FirstEnqueued(x).parent = g

AccountIds(contributors) == {contributors[i].accountId : i \in 1..Len(contributors)}

\* C7: for every page handed to export_to_pdf, each of contributors, attachments and
\* version history is what the service holds when its own fetch succeeded and empty when
\* it failed, whatever the other two fetches did, and the render is attempted.
C7_EnrichmentIndependent ==
    \A i \in 1..Len(export_log) :
        LET r == export_log[i]
        IN  r.body = "ok" =>
            /\ r.listing = "ok" => r.attachments = AttachmentsOf(r.id)
            /\ r.listing = "err" => r.attachments = <<>>
            /\ r.history = "err" => r.contributors = <<>>
            /\ r.history = "ok" =>
                  /\ Range(PublishersOf(r.id)) \subseteq AccountIds(r.contributors)
                  /\ r.creator = "ok" =>
                        AccountIds(r.contributors) =
                            (Range(PublishersOf(r.id))
                               \cup {CreatorOf(r.id), ModifierOf(r.id)}) \ {0}
            /\ r.versions = "ok" => r.version_rows = VersionsOf(r.id)
            /\ r.versions = "err" => r.version_rows = <<>>
            /\ "render" \in Range(r.steps)

\* the attachment fetch of a page failed; its contributors and versions are there and
\* its document was rendered
C7_Witness ==
    \E i \in 1..Len(export_log) :
        /\ export_log[i].listing = "err"
        /\ AttachmentsOf(export_log[i].id) # <<>>
        /\ export_log[i].contributors # <<>>
        /\ export_log[i].version_rows # <<>>
        /\ export_log[i].render = "ok"

\* C8 (as claimed): every attachment is tried once in list order, the render is attempted,
\* and the attachments directory holds a file for exactly the downloads that succeeded.
C8_ExactlySuccessfulDownloads ==
    \A i \in 1..Len(export_log) :
        LET r == export_log[i]
            dir == AttachmentsDir(output_dir, r.path, r.id)
        IN  r.body = "ok" =>
            /\ Len(r.downloads) = Len(r.attachments)
            /\ "render" \in Range(r.steps)
            /\ \A k \in 1..Len(r.attachments) :
                  (\E f \in files : f.path = AttachmentPath(dir, r.attachments[k]))
                      <=> r.downloads[k] = "ok"

\* C9: when the entry point is not resolved the run has ended with status 1 and no export
\* step has happened.
C9_UnresolvedEntryAborts ==
    entry = "unresolved" =>
        /\ pc = "done"
        /\ exit_status = 1
        /\ export_index = 0
        /\ export_log = <<>>
        /\ files = {}
        /\ all_pages_with_paths = <<>>

\* the client was built and the metadata fetch of the entry point failed
C9_Witness == entry = "unresolved" /\ confluence.page_id # 0

\* C10 (as claimed): a run on a valid page URL ends with status 0 and exactly one artifact,
\* <sanitized-title>_<id>.pdf in the output root, and no directory besides the root.
C10_SinglePageRun ==
    (pc = "done" /\ confluence.page_id # 0 /\ ~confluence.is_folder) =>
        /\ exit_status = 0
        /\ files = {[path |-> OsPathJoin(OutputRoot, ArtifactName(confluence.page_id)),
                     kind |-> "pdf", state |-> "complete"]}
        /\ dirs = {OutputRoot}

RECURSIVE Depth(_)
\* the number of hops of the first-discovery chain of x from the entry point
Depth(x) ==
    LET parent == FirstEnqueued(x).parent
    IN  IF parent = 0 THEN 0 ELSE 1 + Depth(parent)

\* the queue entries appended while node n was expanded, in the order of the appends
ChildEntries(n) == SelectSeq(enqueued, LAMBDA e : e.parent = n)

Ids(entries) == [i \in 1..Len(entries) |-> entries[i].id]

RECURSIVE IsSubsequence(_, _)
\* s is t with some elements left out
IsSubsequence(s, t) ==
    IF s = <<>> THEN TRUE
    ELSE IF t = <<>> THEN FALSE
    ELSE IF Head(s) = Head(t) THEN IsSubsequence(Tail(s), Tail(t))
    ELSE IsSubsequence(s, Tail(t))

\* C11: the export list is the dequeued entries of kind 'page' in dequeue order; a page
\* with a shorter first-discovery chain precedes one with a longer chain; the entries
\* queued for one node are its page children, then its folder children, each group in
\* the order the service returned them (only children already processed are left out).
C11_BreadthFirstOrder ==
    pc = "discover" =>
        /\ LET pages == SelectSeq(expanded, LAMBDA e : e.type = "page")
           IN  all_pages_with_paths =
                   [i \in 1..Len(pages) |-> [id |-> pages[i].id, path |-> pages[i].path]]
        /\ \A i, j \in 1..Len(all_pages_with_paths) :
              Depth(all_pages_with_paths[i].id) < Depth(all_pages_with_paths[j].id) => i < j
        /\ \A n \in Nodes :
              LET ce == ChildEntries(n)
                  ps == SelectSeq(ce, LAMBDA e : e.type = "page")
                  fs == SelectSeq(ce, LAMBDA e : e.type = "folder")
              IN  /\ ce = ps \o fs
                  /\ IsSubsequence(Ids(ps), fetched[n].page.items)
                  /\ IsSubsequence(Ids(fs), fetched[n].folder.items)
                  /\ \A c \in Range(fetched[n].page.items) \ Range(Ids(ps)) : c \in processed_ids
                  /\ \A c \in Range(fetched[n].folder.items) \ Range(Ids(fs)) : c \in processed_ids

\* an exported page returned two page children in descending ID order and a folder child;
\* the loop has ended and both page children are exported
C11_Witness ==
    /\ DiscoveryOver
    /\ \E n \in ExportedIds :
          /\ Len(fetched[n].page.items) = 2
          /\ fetched[n].page.items[1] > fetched[n].page.items[2]
          /\ Range(fetched[n].page.items) \subseteq ExportedIds
          /\ Len(ChildEntries(n)) = 3
          /\ fetched[n].folder.items # <<>>

EnrichmentSteps == {"contributors", "attachments", "versions"}

\* the discovery loop has ended before anything is exported, and the export log follows
\* the export list
DiscoveryThenExportInOrder ==
    /\ (export_index > 0 \/ export_log # <<>>) => (todo_queue = <<>> /\ pc \in {"export", "done"})
    /\ Len(export_log) <= Len(all_pages_with_paths)
    /\ \A i \in 1..Len(export_log) : export_log[i].id = all_pages_with_paths[i].id

\* C12 (as specified): discovery is complete before the first export step, pages are
\* exported in export-list order, and for each page no enrichment fetch (contributors,
\* attachment list, version history) comes after the page's first attachment download,
\* and every download comes before the render.
C12_StagesInOrder ==
    /\ DiscoveryThenExportInOrder
    /\ \A k \in 1..Len(export_log) :
          LET steps == export_log[k].steps
          IN  \A i, j \in 1..Len(steps) :
                  /\ (steps[i] = "download" /\ steps[j] \in EnrichmentSteps) => j < i
                  /\ (steps[i] = "render" /\ steps[j] = "download") => j < i

RenderFailed(record) == record.render \in {"engine_error", "write_error"}

\* C13 (as specified): at the end of a run that reached the export phase the totals satisfy
\* discovered = exported + failed, and failed counts exactly the pages whose render
\* raised an error.
C13_TotalsAddUp ==
    (pc = "done" /\ entry = "resolved" /\ all_pages_with_paths # <<>>) =>
        /\ DiscoveredTotal = ExportedTotal + FailedTotal
        /\ FailedTotal = Len(SelectSeq(export_log, RenderFailed))

\* filepath with its extension '.pdf' changed to '.html'
SameBaseHtml(filepath) == SubSeq(filepath, 1, Len(filepath) - Len(PdfExt)) \o HtmlExt

\* C14 (as specified): whenever the engine raises, export_to_pdf returns and the markup is
\* in the artifact's directory under the artifact's base filename with the extension
\* changed, for every title and relative path.
C14_FallbackBesideArtifact ==
    \A k \in 1..Len(export_log) :
        LET r == export_log[k]
        IN  r.render = "engine_error" =>
            /\ ~r.raised
            /\ \E f \in files : f.path = SameBaseHtml(r.filepath) /\ f.kind = "html"

\* C15 (as specified): no file at a final artifact path is partially written, and after a
\* failed render no file exists at the page's final artifact path.
C15_NoPartialArtifact ==
    /\ \A f \in files : f.kind = "pdf" => f.state = "complete"
    /\ \A k \in 1..Len(export_log) :
          LET r == export_log[k]
          IN  (r.body = "ok" /\ r.render # "ok") =>
                  ~\E f \in files : f.path = ArtifactPath(output_dir, r.path, r.id)

\* the strings handed to export_to_pdf in this state
CallStrings == {arg_page_info.title, arg_relative_path}

\* C16: applying _sanitize_path twice gives what applying it once gives, and so does
\* _sanitize_filename, for titles and relative paths alike.
C16_SanitizersIdempotent ==
    \A x \in CallStrings :
        /\ SanitizePath(SanitizePath(x)) = SanitizePath(x)
        /\ SanitizeFilename(SanitizeFilename(x)) = SanitizeFilename(x)

\* export_to_pdf has created the directory of a relative path in which removing an illegal
\* character made two separators adjacent, for a title longer than the limit
C16_Witness ==
    /\ pc = "returned"
    /\ Len(arg_page_info.title) > MaxFilenameLen
    /\ Len(SanitizeFilename(arg_page_info.title)) = MaxFilenameLen
    /\ LET removed == RemoveChars(arg_relative_path, IllegalPathChars)
       IN  /\ removed # arg_relative_path
           /\ CollapseSlashes(removed) # removed
           /\ CollapseSlashes(arg_relative_path) = arg_relative_path
           /\ SanitizePath(arg_relative_path) # <<>>
           /\ OsPathJoin(output_dir, SanitizePath(arg_relative_path)) \in dirs

\* everything the run has created: directories and files
CreatedPaths == dirs \cup {f.path : f \in files}

\* C17 (as specified): none of < > : " | ? * occurs below the base output directory in
\* any directory or file the run creates.
C17_NoIllegalCharacters ==
    \A p \in CreatedPaths :
        \A i \in (Len(OutputRoot) + 1)..Len(p) : p[i] \notin IllegalPathChars

\* os.path.basename(path)
Basename(path) == SubSeq(path, Len(Dirname(path)) + 2, Len(path))

EndsWith(s, suffix) ==
    Len(s) >= Len(suffix) /\ SubSeq(s, Len(s) - Len(suffix) + 1, Len(s)) = suffix

\* C18 (as specified): the artifact filename of every call is at most 200 characters long
\* and ends with the underscore, the full ID and the extension.
C18_FilenameWithinLimit ==
    \A k \in 1..Len(export_log) :
        LET r == export_log[k]
        IN  /\ Len(Basename(r.filepath)) <= MaxFilenameLen
            /\ EndsWith(Basename(r.filepath), <<"_">> \o IdStr(r.id) \o PdfExt)

\* the attachments directory export_to_pdf uses for the page of an export record
AttachmentsDirOf(r) ==
    OsPathJoin(OutputSubdir(output_dir, r.path), AttachmentsFolderName(r.title, r.id))

RenderedOk(r) == r.render = "ok"

\* C19: two calls for different IDs use different artifact paths and different
\* attachments directories, and every artifact written is still there: there are as
\* many PDF files as successful renders.
C19_DistinctIdsDistinctPaths ==
    /\ \A i, j \in 1..Len(export_log) :
          export_log[i].id # export_log[j].id =>
              /\ export_log[i].filepath # export_log[j].filepath
              /\ AttachmentsDirOf(export_log[i]) # AttachmentsDirOf(export_log[j])
    /\ Cardinality({f \in files : f.kind = "pdf"}) = Len(SelectSeq(export_log, RenderedOk))

\* two pages of one directory were rendered whose titles differ, are longer than the
\* limit and sanitize to the same string
C19_Witness ==
    /\ Len(export_log) = 2
    /\ RenderedOk(export_log[1]) /\ RenderedOk(export_log[2])
    /\ export_log[1].id # export_log[2].id
    /\ export_log[1].title # export_log[2].title
    /\ Len(export_log[1].title) > MaxFilenameLen
    /\ SanitizeFilename(export_log[1].title) = SanitizeFilename(export_log[2].title)
    /\ export_log[1].path = export_log[2].path

BlockOrder == <<"title", "contributors", "body", "attachments", "versions">>

\* the blocks the composed document of an export record has to have
ExpectedBlocks(r) ==
    SelectSeq(BlockOrder, LAMBDA b :
        CASE b = "contributors" -> r.contributors # <<>>
          [] b = "attachments" -> r.attachments # <<>>
          [] b = "versions" -> r.version_rows # <<>>
          [] OTHER -> TRUE)

\* C20: the blocks of every composed document are title, contributors, body,
\* attachments, version history in this order, the optional ones present exactly when
\* their list is not empty, and the version rows are the versions in descending order.
C20_CompositionOrder ==
    \A k \in 1..Len(export_log) :
        LET r == export_log[k]
            names == [i \in 1..Len(r.document) |-> r.document[i].block]
        IN  r.body = "ok" =>
            /\ names = ExpectedBlocks(r)
            /\ \A i \in 1..Len(r.document) :
                  r.document[i].block = "versions" =>
                      LET rows == r.document[i].rows
                      IN  /\ Len(rows) = Len(r.version_rows)
                          /\ Range(rows) = Range(r.version_rows)
                          /\ \A a, b \in 1..Len(rows) : a < b => rows[a] >= rows[b]

\* a document with all five blocks whose versions were not listed in descending order
C20_Witness ==
    \E k \in 1..Len(export_log) :
        /\ Len(export_log[k].document) = Len(BlockOrder)
        /\ \E a, b \in 1..Len(export_log[k].version_rows) :
              a < b /\ export_log[k].version_rows[a] < export_log[k].version_rows[b]

\* the first name as the claim words it: the text after the first comma of a name with
\* a comma, otherwise the text before the first space, otherwise the whole name
FirstNameAsClaimed(displayName) ==
    LET name == StripWhitespace(displayName)
        commas == {i \in 1..Len(name) : name[i] = ","}
        spaces == {i \in 1..Len(name) : name[i] = " "}
        first(set) == CHOOSE i \in set : \A j \in set : i <= j
    IN  IF commas # {} THEN Lower(StripWhitespace(SubSeq(name, first(commas) + 1, Len(name))))
        ELSE IF spaces # {} THEN Lower(SubSeq(name, 1, first(spaces) - 1))
        ELSE Lower(name)

\* the first name as amended: the text between the first comma and the next one (the
\* end of the name when there is no other), otherwise the text before the first white
\* space character, otherwise the whole name
FirstNameAmended(displayName) ==
    LET name == StripWhitespace(displayName)
        commas == {i \in 1..Len(name) : name[i] = ","}
        blanks == {i \in 1..Len(name) : name[i] \in Whitespace}
        first(set) == CHOOSE i \in set : \A j \in set : i <= j
        next_comma == IF Cardinality(commas) > 1 THEN first(commas \ {first(commas)})
                      ELSE Len(name) + 1
    IN  IF commas # {}
        THEN Lower(StripWhitespace(SubSeq(name, first(commas) + 1, next_comma - 1)))
        ELSE IF blanks # {} THEN Lower(SubSeq(name, 1, first(blanks) - 1))
        ELSE Lower(name)

\* the returned list is a permutation of the list handed over
IsPermutation ==
    /\ Len(sorted_contributors) = Len(contributors_data)
    /\ Range(sorted_contributors) = Range(contributors_data)

\* the returned list ascends by the first name first_name(_) infers, compared as str,
\* and contributors with equal first names keep the order they were handed over in
OrderedBy(first_name(_)) ==
    \A i, j \in 1..Len(sorted_contributors) :
        i < j =>
            LET a == sorted_contributors[i]
                b == sorted_contributors[j]
            IN  /\ ~KeyLess(StrKey(first_name(b.displayName)),
                            StrKey(first_name(a.displayName)))
                /\ first_name(a.displayName) = first_name(b.displayName)
                       => a.accountId < b.accountId

\* C21 (as claimed): the list returned is a permutation of the input, ascending by the
\* lower-cased text after the first comma (else before the first space, else the whole
\* name), with equal first names in input order.
C21_SortedByClaimedFirstName ==
    pc = "sorted" => IsPermutation /\ OrderedBy(FirstNameAsClaimed)

\* C21 (amended): the list returned is a permutation of the input, ascending by the
\* lower-cased text between the first and the second comma (else before the first white
\* space, else the whole name), with equal first names in input order; "adam Young"
\* comes before "Zoe Adams".
C21_SortedByFirstName ==
    pc = "sorted" =>
        /\ IsPermutation
        /\ OrderedBy(FirstNameAmended)
        /\ \A i, j \in 1..Len(sorted_contributors) :
               (/\ sorted_contributors[i].displayName = AdamYoung
                /\ sorted_contributors[j].displayName = ZoeAdams) => i < j

\* "Zoe Adams" was handed over before "adam Young" and before a "Last, First" name with
\* the same first name; the order of the first two is reversed, the last two keep theirs
C21_Witness ==
    /\ pc = "sorted"
    /\ Len(contributors_data) = 3
    /\ contributors_data[1].displayName = ZoeAdams
    /\ contributors_data[2].displayName = AdamYoung
    /\ GetFirstName(contributors_data[3].displayName) = <<"a", "d", "a", "m">>
    /\ contributors_data[3].displayName # AdamYoung
    /\ [i \in 1..3 |-> sorted_contributors[i].accountId] = <<2, 3, 1>>

\* no accountId occurs twice in the list
NoDuplicateAccount(contributors) ==
    \A i, j \in 1..Len(contributors) :
        contributors[i].accountId = contributors[j].accountId => i = j

\* the creator and the last modifier the service holds for a page
CreatorAndModifier(page_id) == {CreatorOf(page_id), ModifierOf(page_id)} \ {0}

\* C22 (as claimed): the contributor list of every page has no duplicate accountId and
\* contains the creator and the last modifier the service holds, also when the history
\* request failed.
C22_CreatorAndModifierAlways ==
    \A k \in 1..Len(export_log) :
        LET r == export_log[k]
        IN  (r.body = "ok" /\ r.creator # "err") =>
                /\ NoDuplicateAccount(r.contributors)
                /\ CreatorAndModifier(r.id) \subseteq AccountIds(r.contributors)

\* C22 (amended): the contributor list of every page has no duplicate accountId, and
\* contains the creator and the last modifier whenever the history request and the
\* creator/modifier request succeeded, publishers or not; it is empty when the history
\* request failed.
C22_CreatorAndModifierMerged ==
    \A k \in 1..Len(export_log) :
        LET r == export_log[k]
        IN  r.body = "ok" =>
                /\ NoDuplicateAccount(r.contributors)
                /\ (r.history = "ok" /\ r.creator = "ok") =>
                       CreatorAndModifier(r.id) \subseteq AccountIds(r.contributors)
                /\ r.history = "err" => r.contributors = <<>>

\* two pages were enriched: one lists a publisher twice and has a publisher for creator,
\* the other has a creator who published nothing; each account is there once
C22_Witness ==
    \E k, m \in 1..Len(export_log) :
        LET r == export_log[k]
            q == export_log[m]
        IN  /\ r.body = "ok" /\ r.history = "ok" /\ r.creator = "ok"
            /\ Len(PublishersOf(r.id)) > Cardinality(Range(PublishersOf(r.id)))
            /\ CreatorOf(r.id) \in Range(PublishersOf(r.id))
            /\ Len(r.contributors) = Cardinality(Range(PublishersOf(r.id)))
            /\ q.body = "ok" /\ q.history = "ok" /\ q.creator = "ok"
            /\ CreatorOf(q.id) \notin Range(PublishersOf(q.id)) \cup {0}
            /\ CreatorOf(q.id) \in AccountIds(q.contributors)

\* C23 (as claimed): when the creator is reported, the creator's entry carries the
\* isCreator marker, also when the creator was collected as a publisher, and no other
\* entry carries it.
C23_CreatorMarked ==
    \A k \in 1..Len(export_log) :
        LET r == export_log[k]
        IN  (r.body = "ok" /\ r.creator = "ok" /\ CreatorOf(r.id) # 0) =>
                \A i \in 1..Len(r.contributors) :
                    r.contributors[i].isCreator <=>
                        r.contributors[i].accountId = CreatorOf(r.id)

\* C24 (as claimed): for a space entry point every top-level page is queued with the
\* empty path and every top-level folder with a path that starts with the sanitized space
\* name, and every file of the run lies under <output-root>/<space-name>/.
C24_SpaceEntryLayout ==
    confluence.is_space = "true" =>
        /\ pc = "discover" =>
               \A i \in 1..Len(enqueued) :
                   enqueued[i].parent = 0 =>
                       IF enqueued[i].type = "folder"
                       THEN StartsWith(enqueued[i].path, SanitizePath(SpaceName))
                       ELSE enqueued[i].path = <<>>
        /\ \A f \in files :
               StartsWith(f.path, OsPathJoin(OutputRoot, SpaceName) \o <<"/">>)

\* C25 (as claimed): every attachment file lies directly in the attachments directory of
\* its page, under the sanitized title of the attachment.
C25_AttachmentInOwnDirectory ==
    \A k \in 1..Len(export_log) :
        LET r == export_log[k]
            dir == AttachmentsDir(output_dir, r.path, r.id)
        IN  r.body = "ok" =>
                \A j \in 1..Len(r.attachments) :
                    r.downloads[j] = "ok" =>
                        \E f \in files :
                            /\ f.kind = "attachment"
                            /\ f.path = OsPathJoin(dir, SanitizeFilename(r.attachments[j]))
                            /\ Dirname(f.path) = dir

\* the IDs the loop went through more than once
ExpandedTwice == {n \in Nodes : Cardinality({i \in 1..Len(expanded) : expanded[i].id = n}) > 1}

\* C26: whatever the fetches answer, child lists with cycles and with nodes under
\* several parents and failed fetches included, the loop comes to an empty queue, and
\* no ID has then been expanded more than once.
C26_DiscoveryTerminates ==
    (pc = "discover") ~> (DiscoveryOver /\ ExpandedTwice = {})

\* the loop has ended on a hierarchy in which two nodes list each other, one of them
\* also under a second parent or twice under the first, with a fetch that failed
C26_Witness ==
    /\ DiscoveryOver
    /\ \E a, b \in Nodes :
          /\ a # b
          /\ b \in Range(fetched[a].page.items) \cup Range(fetched[a].folder.items)
          /\ a \in Range(fetched[b].page.items) \cup Range(fetched[b].folder.items)
          /\ Cardinality(EnqueuedAt(a)) + Cardinality(EnqueuedAt(b)) > 2
    /\ \E n \in Nodes : "err" \in {fetched[n].page.status, fetched[n].folder.status}

\* the IDs the loop has dequeued and gone through, and the IDs of the export list
Visited == {expanded[i].id : i \in 1..Len(expanded)} \cup ExportedIds

\* the IDs that were put into the work queue so far
EverEnqueued == {enqueued[i].id : i \in 1..Len(enqueued)}

\* no ID waits in the work queue more than once
QueueIdsDistinct ==
    \A i, j \in 1..Len(todo_queue) : todo_queue[i].id = todo_queue[j].id => i = j

\* C27 (as claimed): no step removes an ID from the processed set, and after every step
\* the set holds every ID enqueued or visited so far, no ID is in the work queue twice,
\* and every ID of the export list is in the set.
C27_ProcessedHoldsEnqueued ==
    [][/\ processed_ids \subseteq processed_ids'
       /\ (EverEnqueued \cup Visited \subseteq processed_ids)'
       /\ QueueIdsDistinct']_vars

\* C27 (amended): no step removes an ID from the processed set, and after every step the
\* set holds every ID dequeued and gone through so far and every ID of the export list.
C27_ProcessedHoldsVisited ==
    [][/\ processed_ids \subseteq processed_ids'
       /\ (Visited \subseteq processed_ids)']_vars

\* a page was exported and is in the processed set, while another ID waits in the work
\* queue twice and is not in the set
C27_Witness ==
    /\ pc = "discover"
    /\ ExportedIds # {}
    /\ ExportedIds \subseteq processed_ids
    /\ \E i, j \in 1..Len(todo_queue) :
          /\ i < j
          /\ todo_queue[i].id = todo_queue[j].id
          /\ todo_queue[i].id \notin processed_ids

\* the number of the request whose answer ended the call
LastRequest == (start \div Limit) + 1

\* C28: when the answer that ends the call is a 404 the call returns, with the empty list
\* if it was the first request and with the items of the earlier pages otherwise; it
\* raises exactly when that answer is an HTTP error with another status or no answer.
C28_NotFoundIsNoError ==
    pc \in {"returned", "raised"} =>
        LET status == http_responses[LastRequest].status
        IN  /\ status = 404 =>
                  /\ pc = "returned"
                  /\ all_items = [i \in 1..((LastRequest - 1) * Limit) |-> i]
                  /\ LastRequest = 1 => all_items = <<>>
            /\ pc = "raised" <=> status \in {403, 500, 0}
            /\ \A j \in 1..(LastRequest - 1) :
                  http_responses[j].status = 200 /\ http_responses[j].size = Limit

\* the second request was answered with 404 and the call returned the first page
C28_Witness ==
    /\ pc = "returned"
    /\ LastRequest = 2
    /\ http_responses[2].status = 404
    /\ Len(all_items) = Limit

====
